---- MODULE Spec2Model ----
(***************************************************************************)
(* ACHE Operating Envelope Analyzer (Air-Coolers.py).                      *)
(*                                                                         *)
(* Two specifications:                                                     *)
(*   Spec          process_sheet_data called (and called again) on a table *)
(*                 a caller holds;                                         *)
(*   SpecWorkbook  the "Process File" handler running                      *)
(*                 process_excel_workbook over the sheets of a workbook.   *)
(*                                                                         *)
(* Numbers are fixed-point with one decimal: the integer 125 is 12.5.      *)
(***************************************************************************)
EXTENDS Integers, Sequences, FiniteSets

VARIABLES
    df,             \* the caller's DataFrame (process_sheet_data's argument object)
    df_in,          \* the table as it was read, before any call (history)
    calls,          \* the returns of the calls made so far on df, oldest first
    fig,            \* the figure last returned (or None)
    analysis_text,  \* the text last returned
    frame,          \* the working frame at the end of the last call (local df)
    operating_points, \* the operating_points list of the last call
    crossover,      \* shift_temp, shift_flow, shift_to of the last call
    workbook,       \* the uploaded workbook: its sheets in order
    pc,             \* position of the Process File handler
    idx,            \* number of sheets the loop has gone through
    book,           \* the ExcelWriter's workbook: the sheets written so far
    outfile,        \* the output file on disk
    tmpfile,        \* whether the temporary upload file exists
    ui,             \* what streamlit has shown, oldest first
    download        \* the data behind the download button, when offered

vars == <<df, df_in, calls, fig, analysis_text, frame, operating_points, crossover,
          workbook, pc, idx, book, outfile, tmpfile, ui, download>>

sheetVars == <<df, df_in, calls, fig, analysis_text, frame, operating_points, crossover>>
bookVars == <<workbook, pc, idx, book, outfile, tmpfile, ui, download>>

(***************************************************************************)
(* Bounds                                                                  *)
(***************************************************************************)
MaxRows == 3      \* rows of a 4-column sheet
MaxOpRows == 2    \* rows of a sheet of any other width
MaxCols == 8      \* widest sheet
MaxCalls == 2     \* calls of process_sheet_data on the same table
MaxSheets == 2    \* sheets of a workbook

(***************************************************************************)
(* Cells of a DataFrame                                                    *)
(***************************************************************************)
Num(n) == [k |-> "num", n |-> n, s |-> ""]        \* a number (tenths)
NumStr(n) == [k |-> "numstr", n |-> n, s |-> ""]  \* text that spells the number n
Text(s) == [k |-> "text", n |-> 0, s |-> s]       \* any other text
NaN == [k |-> "nan", n |-> 0, s |-> ""]           \* empty cell / NaN

\* a coercion that repairs instead: what is no number becomes 0
to_numeric_default(c) ==
    CASE c.k = "num" -> c
      [] c.k = "numstr" -> Num(c.n)
      [] OTHER -> Num(0)

\* pd.to_numeric(..., errors='coerce') on one cell
to_numeric(c) ==
    CASE c.k = "num" -> c
      [] c.k = "numstr" -> Num(c.n)
      [] OTHER -> NaN

\* float(x) succeeds on numbers and on text spelling a number
float_ok(c) == c.k \in {"num", "numstr"}
float(c) == Num(c.n)

\* str(x): a number becomes the text spelling it
str(c) == IF c.k = "num" THEN NumStr(c.n) ELSE c

isna(c) == c.k = "nan"

\* f"{x:.1f}" of a one-decimal number: integer part and the decimal digit
Fmt1f(v) == <<v \div 10, v % 10>>

\* f"{x:.0f}": nearest integer, a tie going to the even one
Fmt0f(v) ==
    LET q == v \div 10
        r == v % 10
    IN  IF r < 5 THEN q
        ELSE IF r > 5 THEN q + 1
        ELSE IF q % 2 = 0 THEN q ELSE q + 1

(***************************************************************************)
(* Sequence helpers                                                        *)
(***************************************************************************)
RECURSIVE SelectRows(_, _)
\* the rows a boolean mask keeps, in order (df[mask])
SelectRows(rows, keep) ==
    IF rows = <<>> THEN <<>>
    ELSE LET rest == SelectRows(Tail(rows), Tail(keep))
         IN  IF Head(keep) THEN <<Head(rows)>> \o rest ELSE rest

\* DataFrame.dropna(): the rows with no NaN cell
dropna(rows) ==
    SelectRows(rows, [i \in 1..Len(rows) |-> \A j \in 1..Len(rows[i]) : ~isna(rows[i][j])])

\* df.iloc[:, :n] / column selection on the rows
TakeCols(rows, cs) == [i \in 1..Len(rows) |-> [j \in 1..Len(cs) |-> rows[i][cs[j]]]]

(***************************************************************************)
(* process_sheet_data                                                      *)
(***************************************************************************)
\* the names line 53 gives the four envelope columns
canonical_columns ==
    <<"Temperature_Inlet", "Flowrate_Actual", "Flowrate_PD_Limit", "Flowrate_Momentum_Limit">>

constraint_names == <<"Actual Flowrate", "Pressure Drop (PD)", "Momentum">>

None_fig == [made |-> FALSE, title |-> "", curves |-> <<>>, points |-> <<>>]
None_crossover == [found |-> FALSE, shift_temp |-> 0, shift_flow |-> 0, shift_to |-> ""]

\* len(df.columns) >= 7
has_operating_points(d) == Len(d.columns) >= 7

\* df.columns[-3], df.columns[-2], df.columns[-1]
operating_cols(d) ==
    LET n == Len(d.columns) IN <<n - 2, n - 1, n>>

\* df[[operating_temp_col, operating_flow_col, operating_case_col]].dropna()
op_data(d) == dropna(TakeCols(d.rows, operating_cols(d)))

\* the first row of op_data on which float() raises, 0 when there is none
first_float_error(op) ==
    LET bad == {i \in 1..Len(op) : ~float_ok(op[i][1]) \/ ~float_ok(op[i][2])}
    IN  IF bad = {} THEN 0 ELSE CHOOSE i \in bad : \A j \in bad : i <= j

\* the loop over op_data.iterrows() on its first n rows
parse_operating_points(op, n) ==
    [i \in 1..n |-> [temperature |-> float(op[i][1]).n,
                     flowrate |-> float(op[i][2]).n,
                     case |-> str(op[i][3])]]

\* the cell float() raised on: the temperature first, then the flowrate
float_error_cell(row) == IF ~float_ok(row[1]) THEN row[1] ELSE row[2]

\* the for loop of pd.to_numeric over the four columns
coerce(rows) == [i \in 1..Len(rows) |-> [j \in 1..Len(rows[i]) |-> to_numeric(rows[i][j])]]

Min2(a, b) == IF a <= b THEN a ELSE b

\* df[[three flow columns]].min(axis=1) on one row
Flowrate_Constraint_Min(row) == Min2(row[2].n, Min2(row[3].n, row[4].n))

\* argmin that keeps the last index of the minimum instead of the first
argmin_last(row) ==
    LET m == Min2(row[2].n, Min2(row[3].n, row[4].n))
    IN  IF row[4].n = m THEN 2 ELSE IF row[3].n = m THEN 1 ELSE 0

\* np.argmin over the three flow columns of one row: the first index (0-based)
\* of the minimum
argmin(row) ==
    LET m == Flowrate_Constraint_Min(row)
    IN  IF row[2].n = m THEN 0 ELSE IF row[3].n = m THEN 1 ELSE 2

\* the frame with the columns Flowrate_Constraint_Min and Active_Constraint added
constraint_analysis(rows) ==
    [i \in 1..Len(rows) |->
        rows[i] \o <<Num(Flowrate_Constraint_Min(rows[i])),
                     Text(constraint_names[argmin(rows[i]) + 1])>>]

\* df[df['Active_Constraint'] != df['Active_Constraint'].shift(1)]: the first row
\* compares against NaN and is always kept
crossover_rows(fr) ==
    SelectRows(fr, [i \in 1..Len(fr) |-> i = 1 \/ fr[i][6] # fr[i - 1][6]])

\* the last crossover row instead of the second
shift_data_last(cr) == cr[Len(cr)]

\* shift_data = crossover_rows.iloc[1]
shift_data(cr) == cr[2]

\* shift_temp, shift_flow, shift_to (None when there is no second crossover row)
crossover_of(fr) ==
    LET cr == crossover_rows(fr)
    IN  IF Len(cr) > 1
        THEN [found |-> TRUE,
              shift_temp |-> shift_data(cr)[1].n,
              shift_flow |-> shift_data(cr)[5].n,
              shift_to |-> shift_data(cr)[6].s]
        ELSE None_crossover

Message(kind, temp, flow, to, msg, detail) ==
    [kind |-> kind, temp |-> temp, flow |-> flow, to |-> to, msg |-> msg, detail |-> detail]

\* the two texts of lines 81-89
text_of(x) ==
    IF x.found
    THEN Message("Constraint Shift Analysis", Fmt1f(x.shift_temp), Fmt0f(x.shift_flow),
                 x.shift_to, "", <<>>)
    ELSE Message("Note: does not switch", <<>>, 0, "", "", <<>>)

\* f"Error: {str(e)}"
error_text(msg, detail) == Message("Error", <<>>, 0, "", msg, detail)

\* the legend label of one scattered operating point
point_label(p) ==
    [case |-> p.case, temp |-> Fmt1f(p.temperature), flow |-> Fmt0f(p.flowrate)]

\* the figure: the three curves and the filled minimum over the temperatures,
\* and the operating points
figure(fr, points, sheet_name) ==
    [made |-> TRUE,
     title |-> sheet_name,
     curves |-> [i \in 1..Len(fr) |-> [j \in 1..5 |-> fr[i][j].n]],
     points |-> [i \in 1..Len(points) |-> point_label(points[i])]]

\* what the except clause returns; the caller's table is as it was
failed(d, points, msg, detail) ==
    [fig |-> None_fig, analysis_text |-> error_text(msg, detail), df |-> d,
     frame |-> <<>>, operating_points |-> points, crossover |-> None_crossover]

\* The caller's table after the envelope analysis ran on frame fr. With operating
\* point columns, line 50 rebinds df to a new frame and the caller's is untouched;
\* otherwise lines 53-70 rename, coerce, drop and add columns on the caller's own.
caller_table_after(d, fr) ==
    IF has_operating_points(d) THEN d
    ELSE [columns |-> canonical_columns \o <<"Flowrate_Constraint_Min", "Active_Constraint">>,
          rows |-> fr]

process_sheet_data(d, sheet_name) ==
    LET op == op_data(d)
        bad == first_float_error(op)
    IN  IF has_operating_points(d) /\ bad # 0
        THEN failed(d, parse_operating_points(op, bad - 1),
                    "could not convert string to float", <<float_error_cell(op[bad])>>)
        ELSE IF ~has_operating_points(d) /\ Len(d.columns) # Len(canonical_columns)
        THEN failed(d, <<>>, "Length mismatch", <<Len(d.columns), Len(canonical_columns)>>)
        ELSE LET points == IF has_operating_points(d)
                           THEN parse_operating_points(op, Len(op)) ELSE <<>>
                 fr == constraint_analysis(dropna(coerce(TakeCols(d.rows, <<1, 2, 3, 4>>))))
                 x == crossover_of(fr)
             IN  [fig |-> figure(fr, points, sheet_name),
                  analysis_text |-> text_of(x),
                  df |-> caller_table_after(d, fr),
                  frame |-> fr,
                  operating_points |-> points,
                  crossover |-> x]

(***************************************************************************)
(* The tables a sheet can hold                                             *)
(***************************************************************************)
FlowValues == {15, 25}

\* the inlet temperature of row i: the source data is sorted by temperature
Temp(i) == 105 * i

\* header texts, as in the sample data format, then further columns
Headers ==
    <<"Tube Side Inlet Temperature", "Tube side Mass Flowrate",
      "Tube side Pressure Drop limit (0.7 bar)", "Inlet Nozzle Momentum",
      "Current Operating Temperature", "Current Operating Flowrate", "Operating Case",
      "Column 8", "Column 9", "Column 10">>

\* the four envelope cells of a row, the temperature still to be placed:
\* all numeric ...
GoodRows == {<<Num(0), Num(a), Num(b), Num(c)>> : a, b, c \in FlowValues}

\* ... or with a text, an empty cell, or a number typed as text
OddRows ==
    {<<Text("tbd"), Num(15), Num(25), Num(25)>>,
     <<Num(0), Num(25), NaN, Num(15)>>,
     <<Num(0), NumStr(15), Num(25), Num(25)>>}

EnvRows == GoodRows \cup OddRows

\* the envelope cells used in sheets of another width than 4
FewEnvRows ==
    {<<Num(0), Num(15), Num(25), Num(25)>>,
     <<Num(0), Num(25), Num(25), Num(15)>>,
     <<Num(0), Num(25), Num(15), Num(15)>>,
     <<Num(0), Num(25), Text("-"), Num(15)>>}

\* the envelope cells as row i of a sheet, with that row's temperature
PlaceRow(i, r) == IF r[1].k = "num" THEN [r EXCEPT ![1] = Num(Temp(i))] ELSE r

\* the three operating point cells of a row
OpRows ==
    {<<NaN, NaN, NaN>>,
     <<Num(105), Num(15), Text("Case 1")>>,
     <<Num(210), Num(20), Text("Case 2")>>,
     <<NumStr(105), Num(35), Num(10)>>,
     <<Text("abc"), Num(15), Text("Case 3")>>,
     <<Num(105), NaN, Text("Case 4")>>}

\* a cell of a column between the fourth and the operating point columns
Filler == Num(9990)

\* the rows of width n over an envelope part and an operating point part
WideRow(n, env, op) ==
    IF n <= 4 THEN SubSeq(env, 1, n)
    ELSE IF n < 7 THEN env \o SubSeq(op, 1, n - 4)
    ELSE env \o [j \in 1..(n - 7) |-> Filler] \o op

Table(w, rows) == [columns |-> SubSeq(Headers, 1, w), rows |-> rows]

\* a sheet of 4 columns
EnvTable(es) == Table(4, [i \in 1..Len(es) |-> PlaceRow(i, es[i])])

\* a sheet of w columns
WideTable(w, es, os) ==
    Table(w, [i \in 1..Len(es) |-> WideRow(w, PlaceRow(i, es[i]), os[i])])

\* df is one of the tables a sheet can hold
ReadTable ==
    \/ \E n \in 1..MaxRows : \E es \in [1..n -> EnvRows] : df = EnvTable(es)
    \/ \E w \in (3..MaxCols) \ {4} : \E n \in 1..MaxOpRows :
          \E es \in [1..n -> FewEnvRows] : \E os \in [1..n -> OpRows] :
              df = WideTable(w, es, os)

(***************************************************************************)
(* Spec: calls of process_sheet_data on one table                          *)
(***************************************************************************)
NoText == Message("", <<>>, 0, "", "", <<>>)

BookIdle ==
    /\ workbook = <<>>
    /\ pc = "idle"
    /\ idx = 0
    /\ book = <<>>
    /\ outfile = [exists |-> FALSE, valid |-> FALSE, sheets |-> <<>>]
    /\ tmpfile = FALSE
    /\ ui = <<>>
    /\ download = <<>>

Init ==
    /\ ReadTable
    /\ df_in = df
    /\ calls = <<>>
    /\ fig = None_fig
    /\ analysis_text = NoText
    /\ frame = <<>>
    /\ operating_points = <<>>
    /\ crossover = None_crossover
    /\ BookIdle

\* fig, analysis_text = process_sheet_data(df, sheet_name)
Call(sheet_name) ==
    LET r == process_sheet_data(df, sheet_name)
    IN  /\ df' = r.df
        /\ fig' = r.fig
        /\ analysis_text' = r.analysis_text
        /\ frame' = r.frame
        /\ operating_points' = r.operating_points
        /\ crossover' = r.crossover
        /\ calls' = Append(calls, [fig |-> r.fig, analysis_text |-> r.analysis_text])

ProcessSheetData ==
    /\ Len(calls) < MaxCalls
    /\ Call("ACHE")
    /\ UNCHANGED <<df_in, workbook, pc, idx, book, outfile, tmpfile, ui, download>>

Next == ProcessSheetData

Spec == Init /\ [][Next]_vars

(***************************************************************************)
(* Properties of process_sheet_data                                        *)
(***************************************************************************)
FirstCallDone == Len(calls) >= 1
Succeeded == fig.made

\* the active constraint of each retained sample
Active == [i \in 1..Len(frame) |-> frame[i][6].s]

\* the indices k > 0 (here k > 1) whose active constraint differs from the one before
Shifts == {k \in 2..Len(frame) : Active[k] # Active[k - 1]}

FirstShift == CHOOSE k \in Shifts : \A h \in Shifts : k <= h

\* C1: a successful analysis reports a crossover exactly when some retained sample
\* after the first has an active constraint different from the sample before it;
\* the one crossover reported is the smallest such sample, with its temperature,
\* its constraint minimum and its active constraint; otherwise the text is the
\* "does not switch" note.
C1_Crossover ==
    (FirstCallDone /\ Succeeded) =>
        /\ crossover.found <=> Shifts # {}
        /\ Shifts # {} =>
              /\ crossover.shift_temp = frame[FirstShift][1].n
              /\ crossover.shift_flow = frame[FirstShift][5].n
              /\ crossover.shift_to = Active[FirstShift]
              /\ analysis_text.kind = "Constraint Shift Analysis"
              /\ analysis_text.temp = Fmt1f(frame[FirstShift][1].n)
              /\ analysis_text.flow = Fmt0f(frame[FirstShift][5].n)
              /\ analysis_text.to = Active[FirstShift]
        /\ Shifts = {} => analysis_text.kind = "Note: does not switch"

\* two shifts among the retained samples, and the first one reported
C1_Witness ==
    /\ FirstCallDone /\ Succeeded
    /\ Cardinality(Shifts) >= 2
    /\ crossover.found
    /\ crossover.shift_temp = frame[2][1].n

\* C2: for every retained sample the constraint minimum is the least of the three
\* flows and the active constraint is the first of Actual Flowrate, Pressure Drop,
\* Momentum whose flow equals it; actual = pd < momentum gives Actual Flowrate.
C2_MinAndActive ==
    \A i \in 1..Len(frame) :
        LET flows == <<frame[i][2].n, frame[i][3].n, frame[i][4].n>>
            names == <<"Actual Flowrate", "Pressure Drop (PD)", "Momentum">>
            m == frame[i][5].n
        IN  /\ frame[i][5].k = "num"
            /\ \A j \in 1..3 : m <= flows[j]
            /\ \E j \in 1..3 :
                  /\ flows[j] = m
                  /\ \A h \in 1..(j - 1) : flows[h] # m
                  /\ frame[i][6] = Text(names[j])
            /\ (flows[1] = flows[2] /\ flows[1] < flows[3]) =>
                  frame[i][6].s = "Actual Flowrate"

\* a retained sample with actual = pd < momentum
C2_Witness ==
    /\ FirstCallDone
    /\ \E i \in 1..Len(frame) :
          /\ frame[i][2].n = frame[i][3].n
          /\ frame[i][2].n < frame[i][4].n
          /\ frame[i][6].s = "Actual Flowrate"

\* the four required columns exist and are the ones the envelope is computed from
HasRequiredColumns(t) == Len(t.columns) = 4 \/ Len(t.columns) >= 7

\* a cell that is not a number after coercion
NonNumeric(c) == c.k \in {"text", "nan"}

\* every row of the table has a non-numeric value in a required column
NoUsableRow(t) == \A i \in 1..Len(t.rows) : \E j \in 1..4 : NonNumeric(t.rows[i][j])

\* C3: when no sample remains after the rows with a non-numeric required value
\* are dropped, the analysis fails: no figure and an error text.
C3_ZeroSamplesFail ==
    (FirstCallDone /\ HasRequiredColumns(df_in) /\ NoUsableRow(df_in)) =>
        /\ ~calls[1].fig.made
        /\ calls[1].analysis_text.kind = "Error"

\* C4: a second call on the same table returns what the first returned.
C4_Idempotent ==
    Len(calls) >= 2 => calls[2] = calls[1]

\* C5: the caller's table is after the call what it was before it.
C5_NoSideEffect ==
    df = df_in

\* an operating point row that is filled in and well formed: a number for the
\* temperature and for the flowrate, and a case label
WellFormedOp(r) == float_ok(r[1]) /\ float_ok(r[2]) /\ ~isna(r[3])

\* the table with the operating point cells (the last three) of every row that
\* is not well formed left empty
WithoutMalformedOps(t) ==
    LET n == Len(t.columns)
    IN  [t EXCEPT !.rows =
            [i \in 1..Len(t.rows) |->
                IF WellFormedOp(SubSeq(t.rows[i], n - 2, n)) THEN t.rows[i]
                ELSE [j \in 1..n |-> IF j >= n - 2 THEN NaN ELSE t.rows[i][j]]]]

\* C8: in a sheet with operating point columns a row whose operating point is
\* missing a field, or has text where a number is required, is left out: the
\* analysis succeeds and returns what it returns without that row's operating point.
C8_MalformedOpExcluded ==
    (FirstCallDone /\ Len(df_in.columns) >= 7) =>
        LET r == process_sheet_data(WithoutMalformedOps(df_in), "ACHE")
        IN  /\ calls[1].fig.made
            /\ calls[1] = [fig |-> r.fig, analysis_text |-> r.analysis_text]

\* the operating points of columns 5 to 7
PointsOfColumns5to7(t) ==
    LET op == dropna(TakeCols(t.rows, <<5, 6, 7>>))
    IN  [i \in 1..Len(op) |-> [temperature |-> op[i][1].n, flowrate |-> op[i][2].n,
                               case |-> str(op[i][3])]]

\* C9: every sheet of at least 4 columns is analysed on its first four columns;
\* operating points are read, from columns 5 to 7, exactly when the sheet has at
\* least 7 columns, and a sheet of 4, 5 or 6 columns is analysed without them.
C9_ByPositionAndCount ==
    (/\ Len(calls) = 1
     /\ Len(df_in.columns) >= 4
     /\ analysis_text.msg # "could not convert string to float") =>
        /\ fig.made
        /\ frame = constraint_analysis(dropna(coerce(TakeCols(df_in.rows, <<1, 2, 3, 4>>))))
        /\ operating_points = IF Len(df_in.columns) >= 7
                              THEN PointsOfColumns5to7(df_in) ELSE <<>>

Dist(a, b) == IF a <= b THEN b - a ELSE a - b

\* the constraint minimum of the retained sample nearest in temperature
NearestMin(t) ==
    LET i == CHOOSE i \in 1..Len(frame) :
                \A j \in 1..Len(frame) :
                    Dist(frame[i][1].n, t) < Dist(frame[j][1].n, t)
                    \/ (Dist(frame[i][1].n, t) = Dist(frame[j][1].n, t) /\ i <= j)
    IN  frame[i][5].n

\* C10: every operating point of the result carries a status, SAFE exactly when
\* its flowrate is at most the constraint minimum of the nearest sample.
C10_PointsClassified ==
    (Len(calls) = 1 /\ fig.made /\ frame # <<>>) =>
        \A i \in 1..Len(fig.points) :
            /\ "status" \in DOMAIN fig.points[i]
            /\ fig.points[i].status =
                  IF operating_points[i].flowrate <= NearestMin(operating_points[i].temperature)
                  THEN "SAFE" ELSE "UNSAFE"

(***************************************************************************)
(* SpecWorkbook: the Process File handler and process_excel_workbook       *)
(***************************************************************************)
SheetNames == <<"Sheet1", "Sheet2", "Sheet3">>

NoTable == [columns |-> <<>>, rows |-> <<>>]

\* the tables of the sheets of a workbook: one row, 4, 5 or 7 columns
SheetTables ==
    {EnvTable(<<r>>) : r \in EnvRows}
    \cup {WideTable(w, <<<<Num(0), Num(15), Num(25), Num(25)>>>>, <<o>>) :
            w \in {5, 7}, o \in OpRows}

\* a sheet: its table, and whether reading it or writing it out raises
\* (pd.read_excel, df.to_excel, fig.savefig: outside process_sheet_data's try)
Sheets == [table : SheetTables, fault : BOOLEAN]

\* a workbook: whether pd.ExcelFile can open it, and its sheets
Workbooks ==
    [readable : BOOLEAN,
     sheets : UNION {[1..n -> Sheets] : n \in 1..MaxSheets}]

Shown(level, msg, sheet) == [level |-> level, msg |-> msg, sheet |-> sheet]

InitWorkbook ==
    /\ workbook \in Workbooks
    /\ pc = "idle"
    /\ idx = 0
    /\ book = <<>>
    /\ outfile = [exists |-> FALSE, valid |-> FALSE, sheets |-> <<>>]
    /\ tmpfile = TRUE
    /\ ui = <<>>
    /\ download = <<>>
    /\ df = NoTable
    /\ df_in = NoTable
    /\ calls = <<>>
    /\ fig = None_fig
    /\ analysis_text = NoText
    /\ frame = <<>>
    /\ operating_points = <<>>
    /\ crossover = None_crossover

\* Process File pressed; pd.ExcelFile opens the workbook and pd.ExcelWriter
\* creates the output file
OpenWorkbook ==
    /\ pc = "idle"
    /\ workbook.readable
    /\ pc' = "loop"
    /\ outfile' = [exists |-> TRUE, valid |-> FALSE, sheets |-> <<>>]
    /\ ui' = Append(ui, Shown("info", "Processing sheet(s)", ""))
    /\ UNCHANGED <<sheetVars, workbook, idx, book, tmpfile, download>>

\* Process File pressed; pd.ExcelFile raises, before the writer exists
OpenRaises ==
    /\ pc = "idle"
    /\ ~workbook.readable
    /\ pc' = "except"
    /\ UNCHANGED <<sheetVars, workbook, idx, book, outfile, tmpfile, ui, download>>

\* one pass of the loop over sheet_names: read the sheet, analyse it, and write
\* it out with its text and plot, or show it as failed
LoopSheet ==
    /\ pc = "loop"
    /\ idx < Len(workbook.sheets)
    /\ ~workbook.sheets[idx + 1].fault
    /\ LET name == SheetNames[idx + 1]
           read == workbook.sheets[idx + 1].table
           r == process_sheet_data(read, name)
       IN  /\ df_in' = read
           /\ df' = r.df
           /\ fig' = r.fig
           /\ analysis_text' = r.analysis_text
           /\ frame' = r.frame
           /\ operating_points' = r.operating_points
           /\ crossover' = r.crossover
           /\ calls' = <<[fig |-> r.fig, analysis_text |-> r.analysis_text]>>
           /\ IF r.fig.made
              THEN /\ book' = Append(book, [name |-> name,
                                            data |-> r.df,
                                            start_row |-> Len(r.df.rows) + 3,
                                            text |-> r.analysis_text,
                                            image |-> r.fig])
                   /\ ui' = Append(ui, Shown("success", "Successfully processed", name))
              ELSE /\ book' = book
                   /\ ui' = Append(Append(ui, Shown("error", "Failed to process", name)),
                                   Shown("text", r.analysis_text.msg, name))
    /\ idx' = idx + 1
    /\ UNCHANGED <<workbook, pc, outfile, tmpfile, download>>

\* an exception inside the loop, outside process_sheet_data: control leaves the
\* with block
LoopRaises ==
    /\ pc = "loop"
    /\ idx < Len(workbook.sheets)
    /\ workbook.sheets[idx + 1].fault
    /\ pc' = "exit_raising"
    /\ UNCHANGED <<sheetVars, workbook, idx, book, outfile, tmpfile, ui, download>>

\* the loop is over: control leaves the with block
LoopEnds ==
    /\ pc = "loop"
    /\ idx = Len(workbook.sheets)
    /\ pc' = "exit"
    /\ UNCHANGED <<sheetVars, workbook, idx, book, outfile, tmpfile, ui, download>>

\* ExcelWriter.__exit__: the writer is closed, which saves the workbook, whether
\* or not an exception is leaving the block; saving a workbook with no sheet raises
WriterExit ==
    /\ pc \in {"exit", "exit_raising"}
    /\ IF book # <<>>
       THEN /\ outfile' = [exists |-> TRUE, valid |-> TRUE, sheets |-> book]
            /\ pc' = IF pc = "exit" THEN "return" ELSE "except"
       ELSE /\ outfile' = [exists |-> TRUE, valid |-> FALSE, sheets |-> <<>>]
            /\ pc' = "except"
    /\ UNCHANGED <<sheetVars, workbook, idx, book, tmpfile, ui, download>>

\* process_excel_workbook returns; the handler reads the output file, offers it
\* for download and removes both files
Return ==
    /\ pc = "return"
    /\ ui' = Append(Append(ui, Shown("success", "All sheets processed successfully!", "")),
                    Shown("success", "Processing Complete!", ""))
    /\ download' = outfile.sheets
    /\ tmpfile' = FALSE
    /\ outfile' = [exists |-> FALSE, valid |-> FALSE, sheets |-> <<>>]
    /\ pc' = "done"
    /\ UNCHANGED <<sheetVars, workbook, idx, book>>

\* the except clause of process_excel_workbook shows the error and raises again;
\* the handler's except clause shows it and removes the temporary file
Except ==
    /\ pc = "except"
    /\ ui' = Append(Append(ui, Shown("error", "Error processing workbook", "")),
                    Shown("error", "An error occurred", ""))
    /\ tmpfile' = FALSE
    /\ pc' = "raised"
    /\ UNCHANGED <<sheetVars, workbook, idx, book, outfile, download>>

NextWorkbook ==
    \/ OpenWorkbook
    \/ OpenRaises
    \/ LoopSheet
    \/ LoopRaises
    \/ LoopEnds
    \/ WriterExit
    \/ Return
    \/ Except

SpecWorkbook == InitWorkbook /\ [][NextWorkbook]_vars

\* the sheets the loop has gone through whose analysis failed
FailedSheets ==
    {i \in 1..idx : ~process_sheet_data(workbook.sheets[i].table, SheetNames[i]).fig.made}

\* no file-level error: the workbook opens and no sheet raises on read or write
NoFileError ==
    /\ workbook.readable
    /\ \A i \in 1..Len(workbook.sheets) : ~workbook.sheets[i].fault

\* C6: whichever sheets fail in process_sheet_data, the run goes through every
\* sheet, shows each failed sheet by name, and returns the output file; it raises
\* only on a file-level read or write error.
C6_SheetFailuresIsolated ==
    NoFileError =>
        /\ pc # "raised"
        /\ pc = "done" => (idx = Len(workbook.sheets) /\ download # <<>>)
        /\ \A i \in FailedSheets :
              \E j \in 1..Len(ui) : ui[j] = Shown("error", "Failed to process", SheetNames[i])

\* C7: when a fatal error has ended the run, no output file holding the sheets
\* written before the error is left on disk.
C7_AllOrNothing ==
    pc = "raised" => ~(outfile.exists /\ outfile.sheets # <<>>)

(***************************************************************************)
(* Row-drop monotonicity                                                   *)
(***************************************************************************)
\* row i of the table has a non-numeric value in one of the four required columns
NonNumericRow(t, i) == \E j \in 1..4 : NonNumeric(t.rows[i][j])

\* the operating point cells of row i (the last three of a sheet of 7 or more
\* columns) are ones float() raises on
OpRaises(t, i) ==
    LET n == Len(t.columns)
        r == SubSeq(t.rows[i], n - 2, n)
    IN  /\ n >= 7
        /\ \A j \in 1..3 : ~isna(r[j])
        /\ ~(float_ok(r[1]) /\ float_ok(r[2]))

\* the table without its row i
WithoutRow(t, i) ==
    [t EXCEPT !.rows = SubSeq(t.rows, 1, i - 1) \o SubSeq(t.rows, i + 1, Len(t.rows))]

====
